---------------------------- MODULE Spec2Model ----------------------------
(* A model of rst.py: restify (the notebook-to-reStructuredText           *)
(* transformer) and unfunk / not_funk (the control-sequence stripper).    *)
(*                                                                        *)
(* A Python string is modelled as a sequence of one-character strings, a  *)
(* Python list as a sequence, a dict as a record whose DOMAIN is its key  *)
(* set.  ESC stands for the code point U+001B.                            *)
EXTENDS Integers, Sequences, FiniteSets, TLC

VARIABLES
    nb,       \* the document restify works on (o['text'] is mutated in place)
    loaded,   \* history: the document as json.load returned it (line 67)
    out,      \* restify's local list out
    pc,       \* position of the control flow inside restify
    wi,       \* number of worksheets the for-w loop has taken
    ci,       \* number of cells the for-c loop has taken in worksheet wi
    oi,       \* number of outputs the for-o loop has taken in the cell
    li,       \* lines taken by the loops over o['traceback'] and c['source']
    f,        \* the not_funk generator of the running unfunk call
    si,       \* characters of s that unfunk has sent to f
    kept,     \* characters the join of unfunk has collected so far
    results   \* the lists restify has returned to its caller, in order

vars == <<nb, loaded, out, pc, wi, ci, oi, li, f, si, kept, results>>

----------------------------------------------------------------------------
(* Bounds of the model.                                                   *)

MaxStrLen == 5

MaxLines == 3

MaxOutputs == 2

MaxWorksheets == 2

MaxRuns == 2

----------------------------------------------------------------------------
(* Characters and string literals of the source.                          *)

ESC == "ESC"

\* the backtick character (U+0060)
BACKTICK == "BACKTICK"

NL == "\n"

Whitespace == {" ", "\t", "\n", "\r"}

LowerLetters ==
    {"a", "b", "c", "d", "e", "f", "g", "h", "i", "j", "k", "l", "m",
     "n", "o", "p", "q", "r", "s", "t", "u", "v", "w", "x", "y", "z"}

Blank == <<>>

CodeBlockLine ==
    <<".", ".", " ", "c", "o", "d", "e", "-", "b", "l", "o", "c", "k",
      ":", ":", " ", "p", "y", "t", "h", "o", "n">>

LiteralLine == <<":", ":">>

HideMarker == <<"#", "#">>

Indent == <<" ", " ", " ", " ">>

ImageDirective == <<".", ".", " ", "i", "m", "a", "g", "e", ":", ":", " ">>

AltOption == <<" ", " ", " ", ":", "a", "l", "t", ":", " ">>

ImageStart == <<"!", "[">>

ImageMiddle == <<"]", "(">>

HeadingStart == <<"#", "#", " ">>

----------------------------------------------------------------------------
(* Python's string and list operations, as far as rst.py uses them.       *)

\* s[i:] for i >= 0 (0-based i), on strings and lists
DropFirst(s, i) == SubSeq(s, i + 1, Len(s))

\* s[:-1]
DropLast(s) == SubSeq(s, 1, Len(s) - 1)

\* s[:n] for n >= 0
First(s, n) == SubSeq(s, 1, IF n < Len(s) THEN n ELSE Len(s))

\* s[-n:] for n > 0
Last(s, n) == SubSeq(s, (IF n < Len(s) THEN Len(s) - n ELSE 0) + 1, Len(s))

\* s.rstrip()
RECURSIVE rstrip(_)
rstrip(s) ==
    IF s # <<>> /\ s[Len(s)] \in Whitespace THEN rstrip(DropLast(s)) ELSE s

\* s.startswith(p)
startswith(s, p) == Len(s) >= Len(p) /\ SubSeq(s, 1, Len(p)) = p

\* s.find(sub): 0-based index of the first occurrence, -1 when there is none
find(s, sub) ==
    LET hits == {i \in 0..(Len(s) - Len(sub)) :
                    SubSeq(s, i + 1, i + Len(sub)) = sub}
    IN  IF hits = {} THEN -1
        ELSE CHOOSE i \in hits : \A j \in hits : i <= j

\* s.split(sep, 1)
split1(s, sep) ==
    LET i == find(s, sep)
    IN  IF i = -1 THEN <<s>>
        ELSE <<SubSeq(s, 1, i), DropFirst(s, i + Len(sep))>>

\* s.split('\n')
RECURSIVE splitlines(_)
splitlines(s) ==
    LET i == find(s, <<NL>>)
    IN  IF i = -1 THEN <<s>>
        ELSE <<SubSeq(s, 1, i)>> \o splitlines(DropFirst(s, i + 1))

\* s.replace(backtick, backtick + backtick)
RECURSIVE escape_backticks(_)
escape_backticks(s) ==
    IF s = <<>> THEN <<>>
    ELSE (IF Head(s) = BACKTICK THEN <<BACKTICK, BACKTICK>> ELSE <<Head(s)>>)
            \o escape_backticks(Tail(s))

\* '-' * n
RECURSIVE dashes(_)
dashes(n) == IF n <= 0 THEN <<>> ELSE <<"-">> \o dashes(n - 1)

\* ['    ' + l for l in ls]
indented(ls) == [i \in 1..Len(ls) |-> Indent \o ls[i]]

\* [l.rstrip() for l in ls]
stripped(ls) == [i \in 1..Len(ls) |-> rstrip(ls[i])]

\* line 14 with not line.startswith('##') in place of line != '##'
RECURSIVE without_marker_prefix(_)
without_marker_prefix(ls) ==
    IF ls = <<>> THEN <<>>
    ELSE (IF ~startswith(Head(ls), HideMarker) THEN <<Head(ls)>> ELSE <<>>)
            \o without_marker_prefix(Tail(ls))

\* [l for l in ls if l != '##']
RECURSIVE without_marker(_)
without_marker(ls) ==
    IF ls = <<>> THEN <<>>
    ELSE (IF Head(ls) # HideMarker THEN <<Head(ls)>> ELSE <<>>)
            \o without_marker(Tail(ls))

----------------------------------------------------------------------------
(* not_funk: the generator, as its suspension point and its local nf.     *)
(* The value a next() or send() returns is the nf of the state reached.   *)

NoGenerator == [at |-> "none", nf |-> TRUE]

\* f = not_funk(); f.next(): runs to the first yield, at line 56
not_funk_next == [at |-> "line56", nf |-> TRUE]

\* not_funk_send without line 57 (nf = True)
not_funk_send_keeps_nf(g, c) ==
    IF g.at = "line56"
    THEN IF c = ESC
         THEN [at |-> "line62", nf |-> FALSE]
         ELSE [at |-> "line56", nf |-> g.nf]
    ELSE IF c \in LowerLetters
         THEN [at |-> "line56", nf |-> g.nf]
         ELSE [at |-> "line62", nf |-> g.nf]

\* f.send(c): resumes g with c and runs it to its next yield
not_funk_send(g, c) ==
    IF g.at = "line56"
    THEN IF c = ESC
         THEN [at |-> "line62", nf |-> FALSE]
         ELSE [at |-> "line56", nf |-> TRUE]
    ELSE IF c \in LowerLetters
         THEN [at |-> "line56", nf |-> g.nf]
         ELSE [at |-> "line62", nf |-> g.nf]

----------------------------------------------------------------------------
(* The documents restify is run on.                                       *)

SeqsUpTo(S, n) == UNION {[1..k -> S] : k \in 0..n}

CodeCell(input, outputs) ==
    [cell_type |-> "code", input |-> input, outputs |-> outputs]

MarkdownCell(source) == [cell_type |-> "markdown", source |-> source]

HeadingCell(source) == [cell_type |-> "heading", source |-> source]

TextOutput(text) == [output_type |-> "stream", text |-> text]

TracebackOutput(tb) == [output_type |-> "pyerr", traceback |-> tb]

DisplayOutput == [output_type |-> "display_data"]

\* an output that carries both keys: line 17 takes it as text
BothOutput(text, tb) ==
    [output_type |-> "pyerr", text |-> text, traceback |-> tb]

Document(worksheets) == [worksheets |-> worksheets]

OneCellDocument(first, c) == Document(<<[cells |-> <<first, c>>]>>)

FirstCells ==
    { MarkdownCell(<<<<"#", "#", " ", "T">>>>),
      CodeCell(<<<<"x">>>>, <<TextOutput(<<<<"1">>>>)>>) }

TitleCell == MarkdownCell(<<<<"#", "#", " ", "T">>>>)

WorksheetPool ==
    { [cells |-> <<>>] }
    \cup { [cells |-> <<c>>] : c \in FirstCells }
    \cup { [cells |-> <<c, MarkdownCell(<<LiteralLine, Blank>>),
                        CodeCell(<<<<"x">>>>, <<>>)>>] : c \in FirstCells }
    \cup { [cells |-> <<c, HeadingCell(<<<<"T">>>>),
                        CodeCell(<<HideMarker>>,
                                 <<TextOutput(<<Blank, <<"1">>>>)>>)>>]
           : c \in FirstCells }

StructureDocuments ==
    { Document(ws) : ws \in SeqsUpTo(WorksheetPool, MaxWorksheets) }

CodeLinePool ==
    { <<"x">>, HideMarker, <<"#", "#", " ">>, <<" ", "#", "#">>,
      <<"#", "#", "#">> }

CodeAlphabet == {"#", " ", "x"}

CodeDocuments ==
    { OneCellDocument(TitleCell, CodeCell(input, <<>>)) :
        input \in SeqsUpTo(CodeLinePool, MaxLines)
                  \cup { <<l>> : l \in SeqsUpTo(CodeAlphabet, MaxStrLen) } }

TextLinePool == { Blank, <<" ">>, <<"1", " ">> }

OutputPool ==
    { DisplayOutput,
      TextOutput(<<>>), TextOutput(<<Blank>>), TextOutput(<<Blank, Blank>>),
      TextOutput(<<<<"1">>>>),
      TracebackOutput(<<>>), TracebackOutput(<<<<ESC, "[", "m", "e">>>>),
      BothOutput(<<<<"1">>>>, <<<<"e">>>>) }

OutputDocuments ==
    { OneCellDocument(TitleCell, CodeCell(<<<<"x">>>>, outputs)) :
        outputs \in SeqsUpTo(OutputPool, MaxOutputs)
                    \cup { <<TextOutput(t)>> :
                             t \in SeqsUpTo(TextLinePool, MaxLines) } }

TracebackPool ==
    { <<ESC, "[">>, <<"a", NL, "b">>, <<ESC, "[", "m", "e">>,
      <<ESC, "M", "m", "e">> }

TracebackAlphabet == {ESC, "m", "[", NL}

TracebackDocuments ==
    { OneCellDocument(TitleCell, CodeCell(<<>>, <<TracebackOutput(tb)>>)) :
        tb \in SeqsUpTo(TracebackPool, MaxLines)
               \cup { <<s>> : s \in SeqsUpTo(TracebackAlphabet, MaxStrLen) } }

MarkdownLinePool ==
    { Blank, LiteralLine, <<"a", BACKTICK, "b">>, <<"#", "#", " ", "a", " ">>,
      <<"!", "[", BACKTICK, "]", "(", "#", "#", " ", "a", ")", " ">> }

ProseAlphabet == {"#", " ", BACKTICK, "a"}

ImageAlphabet == {"]", "(", ")", "a"}

MarkdownDocuments ==
    { OneCellDocument(TitleCell, MarkdownCell(source)) :
        source \in SeqsUpTo(MarkdownLinePool, MaxLines)
                   \cup { <<l>> : l \in SeqsUpTo(ProseAlphabet, MaxStrLen) }
                   \cup { <<ImageStart \o r>> :
                            r \in SeqsUpTo(ImageAlphabet, MaxStrLen) } }

Documents ==
    StructureDocuments \cup CodeDocuments \cup OutputDocuments
        \cup TracebackDocuments \cup MarkdownDocuments

----------------------------------------------------------------------------
(* restify, unfunk and not_funk as a state machine.                       *)

\* line 10 iterating over w['cells'] whole
SliceStartZero == 1 - 1

\* the start of the slice w['cells'][1:]
SliceStart == 1

\* w['cells'][1:]
cells_of(w) == DropFirst(w.cells, SliceStart)

\* the worksheet, cell, output and line the loops are at
w_of(doc) == doc.worksheets[wi]

c_of(doc) == cells_of(w_of(doc))[ci]

o_of(doc) == c_of(doc).outputs[oi]

\* lines 18-19 with a while in place of the if
RECURSIVE text_after_del_all(_)
text_after_del_all(text) ==
    IF First(text, 1) = <<Blank>> THEN text_after_del_all(Tail(text)) ELSE text

\* o['text'] after lines 18-19
text_after_del(text) ==
    IF First(text, 1) = <<Blank>> THEN Tail(text) ELSE text

\* nb after lines 18-19 on output k of the cell the loop is at
nb_after_del(k) ==
    [nb EXCEPT !.worksheets[wi].cells[SliceStart + ci].outputs[k].text =
                    text_after_del(@)]

Init ==
    /\ nb \in Documents
    /\ loaded = nb
    /\ out = <<>>
    /\ pc = "worksheets"
    /\ wi = 0
    /\ ci = 0
    /\ oi = 0
    /\ li = 0
    /\ f = NoGenerator
    /\ si = 0
    /\ kept = <<>>
    /\ results = <<>>

\* line 9: the for-w loop takes the next worksheet
TakeWorksheet ==
    /\ pc = "worksheets"
    /\ wi < Len(nb.worksheets)
    /\ wi' = wi + 1
    /\ ci' = 0
    /\ pc' = "cells"
    /\ UNCHANGED <<nb, loaded, out, oi, li, f, si, kept, results>>

\* line 45: the for-w loop is exhausted, restify returns out
Return ==
    /\ pc = "worksheets"
    /\ wi = Len(nb.worksheets)
    /\ results' = Append(results, out)
    /\ pc' = "done"
    /\ UNCHANGED <<nb, loaded, out, wi, ci, oi, li, f, si, kept>>

\* line 10: the for-c loop is exhausted
EndWorksheet ==
    /\ pc = "cells"
    /\ ci = Len(cells_of(w_of(nb)))
    /\ pc' = "worksheets"
    /\ UNCHANGED <<nb, loaded, out, wi, ci, oi, li, f, si, kept, results>>

\* lines 10-15: a code cell is taken, its source block is emitted
TakeCodeCell ==
    /\ pc = "cells"
    /\ ci < Len(cells_of(w_of(nb)))
    /\ LET c == cells_of(w_of(nb))[ci + 1]
       IN  /\ c.cell_type = "code"
           /\ out' = out \o <<Blank, CodeBlockLine, Blank>>
                         \o indented(without_marker(stripped(c.input)))
                         \o <<Blank, LiteralLine, Blank>>
    /\ ci' = ci + 1
    /\ oi' = 0
    /\ pc' = "outputs"
    /\ UNCHANGED <<nb, loaded, wi, li, f, si, kept, results>>

\* lines 10, 27-28: a markdown cell is taken
TakeMarkdownCell ==
    /\ pc = "cells"
    /\ ci < Len(cells_of(w_of(nb)))
    /\ cells_of(w_of(nb))[ci + 1].cell_type = "markdown"
    /\ out' = Append(out, Blank)
    /\ ci' = ci + 1
    /\ li' = 0
    /\ pc' = "source"
    /\ UNCHANGED <<nb, loaded, wi, oi, f, si, kept, results>>

\* lines 10, 11, 27: a cell of another type falls through both tests
SkipOtherCell ==
    /\ pc = "cells"
    /\ ci < Len(cells_of(w_of(nb)))
    /\ cells_of(w_of(nb))[ci + 1].cell_type \notin {"code", "markdown"}
    /\ ci' = ci + 1
    /\ UNCHANGED <<nb, loaded, out, pc, wi, oi, li, f, si, kept, results>>

\* lines 16-20: a text output: the leading '' is deleted from o['text'],
\* the lines left are emitted
TextOutputStep ==
    /\ pc = "outputs"
    /\ oi < Len(c_of(nb).outputs)
    /\ "text" \in DOMAIN c_of(nb).outputs[oi + 1]
    /\ nb' = nb_after_del(oi + 1)
    /\ out' = out \o indented(stripped(
                        text_after_del(c_of(nb).outputs[oi + 1].text)))
    /\ oi' = oi + 1
    /\ UNCHANGED <<loaded, pc, wi, ci, li, f, si, kept, results>>

\* lines 16, 17, 21: a traceback output is taken
TakeTraceback ==
    /\ pc = "outputs"
    /\ oi < Len(c_of(nb).outputs)
    /\ "text" \notin DOMAIN c_of(nb).outputs[oi + 1]
    /\ "traceback" \in DOMAIN c_of(nb).outputs[oi + 1]
    /\ oi' = oi + 1
    /\ li' = 0
    /\ pc' = "traceback"
    /\ UNCHANGED <<nb, loaded, out, wi, ci, f, si, kept, results>>

\* lines 16, 17, 21: an output with neither key emits nothing
SkipOtherOutput ==
    /\ pc = "outputs"
    /\ oi < Len(c_of(nb).outputs)
    /\ "text" \notin DOMAIN c_of(nb).outputs[oi + 1]
    /\ "traceback" \notin DOMAIN c_of(nb).outputs[oi + 1]
    /\ oi' = oi + 1
    /\ UNCHANGED <<nb, loaded, out, pc, wi, ci, li, f, si, kept, results>>

\* lines 22-23, 48-49: unfunk(line) is called: a new generator is primed
UnfunkCall ==
    /\ pc = "traceback"
    /\ li < Len(o_of(nb).traceback)
    /\ li' = li + 1
    /\ f' = not_funk_next
    /\ si' = 0
    /\ kept' = <<>>
    /\ pc' = "unfunk"
    /\ UNCHANGED <<nb, loaded, out, wi, ci, oi, results>>

\* line 50: the next character of s is sent to f and kept if f says so
UnfunkSend ==
    /\ pc = "unfunk"
    /\ si < Len(o_of(nb).traceback[li])
    /\ LET c == o_of(nb).traceback[li][si + 1]
           g == not_funk_send(f, c)
       IN  /\ f' = g
           /\ kept' = IF g.nf THEN Append(kept, c) ELSE kept
    /\ si' = si + 1
    /\ UNCHANGED <<nb, loaded, out, pc, wi, ci, oi, li, results>>

\* line 24 without the split on newlines
UnfunkReturnNoSplit ==
    /\ pc = "unfunk"
    /\ si = Len(o_of(nb).traceback[li])
    /\ out' = Append(out, Indent \o kept)
    /\ f' = NoGenerator
    /\ pc' = "traceback"
    /\ UNCHANGED <<nb, loaded, wi, ci, oi, li, si, kept, results>>

\* lines 50, 24: unfunk returns the joined string, its pieces are emitted
UnfunkReturn ==
    /\ pc = "unfunk"
    /\ si = Len(o_of(nb).traceback[li])
    /\ out' = out \o indented(splitlines(kept))
    /\ f' = NoGenerator
    /\ pc' = "traceback"
    /\ UNCHANGED <<nb, loaded, wi, ci, oi, li, si, kept, results>>

\* line 22: the loop over o['traceback'] is exhausted
EndTraceback ==
    /\ pc = "traceback"
    /\ li = Len(o_of(nb).traceback)
    /\ pc' = "outputs"
    /\ UNCHANGED <<nb, loaded, out, wi, ci, oi, li, f, si, kept, results>>

\* line 26 without the test of line 25
after_cleanup_always(o) == First(o, Len(o) - 2)

\* out after lines 25-26
after_cleanup(o) ==
    IF Last(o, 2) = <<LiteralLine, Blank>>
    THEN First(o, Len(o) - 2)
    ELSE o

\* lines 16, 25-26: the for-o loop is exhausted, an empty '::' is removed
Cleanup ==
    /\ pc = "outputs"
    /\ oi = Len(c_of(nb).outputs)
    /\ out' = after_cleanup(out)
    /\ pc' = "cells"
    /\ UNCHANGED <<nb, loaded, wi, ci, oi, li, f, si, kept, results>>

\* line 30: the right-trimmed markdown line the loop takes next
next_source_line == rstrip(c_of(nb).source[li + 1])

\* lines 33-35 without link = link[:-1]
image_lines_keep_last(parts) ==
    <<ImageDirective \o parts[2], AltOption \o DropFirst(parts[1], 2)>>

\* lines 33-35: the two lines of an image, from the parts of the split
image_lines(parts) ==
    <<ImageDirective \o DropLast(parts[2]), AltOption \o DropFirst(parts[1], 2)>>

\* lines 29-36: an image line whose split has two parts
ImageLine ==
    /\ pc = "source"
    /\ li < Len(c_of(nb).source)
    /\ startswith(next_source_line, ImageStart)
    /\ Len(split1(next_source_line, ImageMiddle)) = 2
    /\ out' = out \o image_lines(split1(next_source_line, ImageMiddle))
    /\ li' = li + 1
    /\ UNCHANGED <<nb, loaded, pc, wi, ci, oi, f, si, kept, results>>

\* lines 29-32: an image line without '](': the unpacking of the
\* one-element list raises ValueError, which nothing catches
ImageLineRaises ==
    /\ pc = "source"
    /\ li < Len(c_of(nb).source)
    /\ startswith(next_source_line, ImageStart)
    /\ Len(split1(next_source_line, ImageMiddle)) # 2
    /\ pc' = "raised"
    /\ UNCHANGED <<nb, loaded, out, wi, ci, oi, li, f, si, kept, results>>

\* lines 29-31, 38-40: a prose line
ProseLine ==
    /\ pc = "source"
    /\ li < Len(c_of(nb).source)
    /\ ~startswith(next_source_line, ImageStart)
    /\ ~startswith(next_source_line, HeadingStart)
    /\ out' = Append(out, escape_backticks(next_source_line))
    /\ li' = li + 1
    /\ UNCHANGED <<nb, loaded, pc, wi, ci, oi, f, si, kept, results>>

\* lines 42-44 with the underline as long as the whole line
heading_lines_long(line) == <<DropFirst(line, 3), dashes(Len(line))>>

\* lines 42-44: the heading text and its underline
heading_lines(line) ==
    <<DropFirst(line, 3), dashes(Len(DropFirst(line, 3)))>>

\* lines 29-31, 38, 42-44: a heading line
HeadingLine ==
    /\ pc = "source"
    /\ li < Len(c_of(nb).source)
    /\ ~startswith(next_source_line, ImageStart)
    /\ startswith(next_source_line, HeadingStart)
    /\ out' = out \o heading_lines(next_source_line)
    /\ li' = li + 1
    /\ UNCHANGED <<nb, loaded, pc, wi, ci, oi, f, si, kept, results>>

\* line 29: the loop over c['source'] is exhausted
EndSource ==
    /\ pc = "source"
    /\ li = Len(c_of(nb).source)
    /\ pc' = "cells"
    /\ UNCHANGED <<nb, loaded, out, wi, ci, oi, li, f, si, kept, results>>

\* restify is called once more on the same in-memory document
Rerun ==
    /\ pc = "done"
    /\ Len(results) < MaxRuns
    /\ out' = <<>>
    /\ wi' = 0
    /\ ci' = 0
    /\ oi' = 0
    /\ li' = 0
    /\ pc' = "worksheets"
    /\ UNCHANGED <<nb, loaded, f, si, kept, results>>

Next ==
    \/ TakeWorksheet
    \/ Return
    \/ EndWorksheet
    \/ TakeCodeCell
    \/ TakeMarkdownCell
    \/ SkipOtherCell
    \/ TextOutputStep
    \/ TakeTraceback
    \/ SkipOtherOutput
    \/ UnfunkCall
    \/ UnfunkSend
    \/ UnfunkReturn
    \/ EndTraceback
    \/ Cleanup
    \/ ImageLine
    \/ ImageLineRaises
    \/ ProseLine
    \/ HeadingLine
    \/ EndSource

\* one run of restify, as rst.py makes it (line 69)
Spec == Init /\ [][Next]_vars

NextTwice == Next \/ Rerun

\* restify run again on the document it has already worked on
SpecTwice == Init /\ [][NextTwice]_vars

----------------------------------------------------------------------------
(* What the specification says each piece renders to; the claims compare  *)
(* the state machine with these.                                          *)

RECURSIVE Concat(_)
Concat(ss) == IF ss = <<>> THEN <<>> ELSE Head(ss) \o Concat(Tail(ss))

Range(s) == {s[i] : i \in 1..Len(s)}

\* the two-mode machine of section 4.2 as a fold carrying in_escape
RECURSIVE StripFold(_, _)
StripFold(s, in_escape) ==
    IF s = <<>> THEN <<>>
    ELSE IF in_escape
         THEN StripFold(Tail(s), Head(s) \notin LowerLetters)
         ELSE IF Head(s) = ESC
              THEN StripFold(Tail(s), TRUE)
              ELSE <<Head(s)>> \o StripFold(Tail(s), FALSE)

\* the mode the fold is in after s
RECURSIVE ModeAfter(_, _)
ModeAfter(s, in_escape) ==
    IF s = <<>> THEN in_escape
    ELSE ModeAfter(Tail(s), IF in_escape THEN Head(s) \notin LowerLetters
                                         ELSE Head(s) = ESC)

\* the pieces of a string between its newline characters
RECURSIVE Pieces(_, _)
Pieces(s, acc) ==
    IF s = <<>> THEN <<acc>>
    ELSE IF Head(s) = NL THEN <<acc>> \o Pieces(Tail(s), <<>>)
         ELSE Pieces(Tail(s), Append(acc, Head(s)))

\* the lines of a traceback output: every raw string stripped on its own
ExpectedTraceback(tb) ==
    Concat([i \in 1..Len(tb) |->
                LET ps == Pieces(StripFold(tb[i], FALSE), <<>>)
                IN  [j \in 1..Len(ps) |-> Indent \o ps[j]]])

\* the lines of a text output: only a leading '' is left out
ExpectedText(t) ==
    IF t # <<>> /\ t[1] = Blank
    THEN [i \in 1..(Len(t) - 1) |-> Indent \o rstrip(t[i + 1])]
    ELSE [i \in 1..Len(t) |-> Indent \o rstrip(t[i])]

\* the source lines of a code cell: the lines that trim to '##' left out
RECURSIVE ExpectedSource(_)
ExpectedSource(input) ==
    IF input = <<>> THEN <<>>
    ELSE (IF rstrip(Head(input)) = <<"#", "#">> THEN <<>>
          ELSE <<Indent \o rstrip(Head(input))>>)
            \o ExpectedSource(Tail(input))

\* the lines an output record emits
ExpectedOutput(o) ==
    IF "text" \in DOMAIN o THEN ExpectedText(o.text)
    ELSE IF "traceback" \in DOMAIN o THEN ExpectedTraceback(o.traceback)
    ELSE <<>>

\* the lines the first k output records of a cell emit
ExpectedBody(c, k) == Concat([j \in 1..k |-> ExpectedOutput(c.outputs[j])])

----------------------------------------------------------------------------
(* C2: the generator protocol and the fold agree.                         *)

\* the raw traceback string unfunk is working on
RawString == o_of(nb).traceback[li]

\* C2: while unfunk runs the not_funk generator (primed once, then sent one
\* character at a time), the characters kept so far are exactly those the
\* two-mode fold with one in_escape flag keeps on the characters sent so
\* far, and the generator is suspended in the suppress loop exactly when
\* the fold is in escape mode; at the end of the string kept is the fold of
\* the whole string (an unterminated sequence is just dropped).
C2_GeneratorIsFold ==
    pc = "unfunk" =>
        /\ kept = StripFold(First(RawString, si), FALSE)
        /\ (f.at = "line62") = ModeAfter(First(RawString, si), FALSE)
        /\ f.at \in {"line56", "line62"}

\* a whole string was sent that holds text, a terminated escape sequence,
\* a character that is no letter and an unterminated escape sequence
C2_Witness ==
    /\ pc = "unfunk"
    /\ si = Len(RawString)
    /\ RawString = <<"m", ESC, "m", "[", ESC>>
    /\ kept = <<"m", "[">>
    /\ f.at = "line62"

----------------------------------------------------------------------------
(* C3: text outputs.                                                      *)

\* the step of lines 17-20 on the output the for-o loop takes next
IsTextStep ==
    /\ pc = "outputs"
    /\ pc' = "outputs"
    /\ oi' = oi + 1
    /\ "text" \in DOMAIN c_of(nb).outputs[oi + 1]

\* C3: a text output with list t emits exactly '    ' + rstrip(t[i]) for
\* i = 1..len(t)-1 in order when t[0] == '' (only that one entry is left
\* out, a second '' is rendered), and for every i when t is empty or
\* t[0] != ''.
C3_TextOutput ==
    [][IsTextStep =>
        out' = out \o ExpectedText(c_of(nb).outputs[oi + 1].text)]_vars

\* a text output ['', '', '1 '] was rendered: the second '' and '1' remain
C3_Witness ==
    /\ pc = "outputs"
    /\ oi = 1
    /\ c_of(loaded).outputs[1] = TextOutput(<<Blank, Blank, <<"1", " ">>>>)
    /\ Last(out, 3) = <<Blank, Indent, Indent \o <<"1">>>>

----------------------------------------------------------------------------
(* C4: the source block of a code cell.                                   *)

\* C4: taking a code cell emits the code-block framing, then exactly
\* '    ' + rstrip(l) for every input line l that does not trim to '##',
\* in order, then the literal-block framing; no emitted source line is
\* '    ##', and lines that only contain or start with '##' are kept.
C4_HiddenLines ==
    [][pc = "cells" /\ pc' = "outputs" =>
        LET c == cells_of(w_of(nb))[ci + 1]
        IN  /\ out' = out \o <<Blank, CodeBlockLine, Blank>>
                          \o ExpectedSource(c.input)
                          \o <<Blank, LiteralLine, Blank>>
            /\ \A i \in (Len(out) + 4)..(Len(out') - 3) :
                    out'[i] # Indent \o <<"#", "#">>]_vars

\* a code cell with the lines '## ' (hidden), ' ##' and '###' (both kept)
C4_Witness ==
    /\ pc = "outputs"
    /\ oi = 0
    /\ c_of(nb).input = <<<<"#", "#", " ">>, <<" ", "#", "#">>,
                          <<"#", "#", "#">>>>
    /\ out = <<Blank, CodeBlockLine, Blank,
               Indent \o <<" ", "#", "#">>, Indent \o <<"#", "#", "#">>,
               Blank, LiteralLine, Blank>>

----------------------------------------------------------------------------
(* C5 and C7: markdown lines.                                             *)

\* the step of lines 29-44 on one markdown line that does not raise
IsSourceStep == pc = "source" /\ pc' = "source" /\ li' = li + 1

\* the positions (1-based) at which '](' occurs in l
MiddlePositions(l) ==
    {k \in 1..(Len(l) - 1) : l[k] = "]" /\ l[k + 1] = "("}

FirstMiddle(l) ==
    CHOOSE k \in MiddlePositions(l) : \A j \in MiddlePositions(l) : k <= j

\* l is '![' caption '](' link ')'
IsImageSyntax(l) ==
    /\ startswith(l, <<"!", "[">>)
    /\ MiddlePositions(l) # {}
    /\ Len(l) >= FirstMiddle(l) + 2
    /\ l[Len(l)] = ")"

\* C5: a markdown line that right-trimmed starts with '## ' emits exactly
\* two lines, the text after the 3-character prefix and a line of '-' as
\* long as that text; the text is never empty; a line that right-trimmed
\* is just '##' is emitted as the prose line '##'.
C5_Heading ==
    [][IsSourceStep =>
        LET l == rstrip(c_of(nb).source[li + 1])
            text == SubSeq(l, 4, Len(l))
        IN  /\ startswith(l, <<"#", "#", " ">>) =>
                  /\ text # <<>>
                  /\ out' = out \o <<text, [i \in 1..Len(text) |-> "-"]>>
            /\ l = <<"#", "#">> => out' = Append(out, l)]_vars

\* the line '## a ' was rendered as 'a' and '-'
C5_Witness ==
    /\ pc = "source"
    /\ li = 1
    /\ c_of(nb).source[1] = <<"#", "#", " ", "a", " ">>
    /\ Last(out, 2) = <<<<"a">>, <<"-">>>>

----------------------------------------------------------------------------
(* C8: traceback outputs.                                                 *)

\* the lines emitted so far by the traceback output the loop is in
C8_TracebackShape ==
    pc = "traceback" =>
        LET lines == ExpectedTraceback(First(o_of(nb).traceback, li))
        IN  /\ Len(out) >= Len(lines)
            /\ Last(out, Len(lines)) = lines
            /\ \A i \in (Len(out) - Len(lines) + 1)..Len(out) :
                    /\ ESC \notin Range(out[i])
                    /\ NL \notin Range(out[i])
                    /\ startswith(out[i], Indent)

\* what each step inside a traceback output does to out
C8_TracebackStep ==
    /\ pc = "traceback" /\ pc' = "unfunk" =>
            f' = [at |-> "line56", nf |-> TRUE] /\ kept' = <<>> /\ out' = out
    /\ pc = "unfunk" /\ pc' = "unfunk" => out' = out
    /\ pc = "unfunk" /\ pc' = "traceback" =>
            out' = out \o ExpectedTraceback(<<RawString>>)
    /\ pc = "traceback" /\ pc' = "outputs" => out' = out

\* C8: inside a traceback output, the lines emitted since the output was
\* taken are, for the raw strings handled so far and in their order,
\* '    ' + p for each piece p between the newlines of the string as the
\* two-mode machine, started in pass-through mode, strips it; none of
\* them holds an ESC or a newline character.  Every unfunk call starts
\* with a generator of its own in pass-through mode, the return of the
\* call appends the lines of its string alone, and no other step of the
\* traceback touches out.
C8_Traceback == [](C8_TracebackShape) /\ [][C8_TracebackStep]_vars

\* a traceback whose first string ends inside an escape sequence and whose
\* second string holds a newline: '    ', '    a' and '    b' were emitted
C8_Witness ==
    /\ pc = "traceback"
    /\ li = 2
    /\ o_of(nb).traceback = <<<<ESC, "[">>, <<"a", NL, "b">>>>
    /\ Last(out, 3) = <<Indent, Indent \o <<"a">>, Indent \o <<"b">>>>

----------------------------------------------------------------------------
(* C1: the cleanup of an empty literal block.                             *)

\* the lines a code cell has put on out when the for-o loop has taken k of
\* its outputs (before the cleanup)
ExpectedOpenCell(c, k) ==
    <<Blank, CodeBlockLine, Blank>> \o ExpectedSource(c.input)
        \o <<Blank, LiteralLine, Blank>> \o ExpectedBody(c, k)

\* the lines a code cell contributes: '::' and '' stay if and only if an
\* output record emitted a line
ExpectedCodeCell(c) ==
    <<Blank, CodeBlockLine, Blank>> \o ExpectedSource(c.input) \o <<Blank>>
        \o (IF ExpectedBody(c, Len(c.outputs)) = <<>> THEN <<>>
            ELSE <<LiteralLine, Blank>> \o ExpectedBody(c, Len(c.outputs)))

\* out while the for-o loop of a code cell runs
C1_OpenCell ==
    pc = "outputs" =>
        LET lines == ExpectedOpenCell(c_of(loaded), oi)
        IN  Len(out) >= Len(lines) /\ Last(out, Len(lines)) = lines

\* out across the step of lines 25-26
C1_CleanupStep ==
    pc = "outputs" /\ pc' = "cells" =>
        LET before == Len(out) - Len(ExpectedOpenCell(c_of(loaded), oi))
        IN  out' = First(out, before) \o ExpectedCodeCell(c_of(loaded))

\* C1: when the for-o loop of a code cell ends, out is the lines of the
\* earlier cells followed by the lines of this cell: the three code-block
\* framing lines, the source lines, '', and then '::', '' and the output
\* body if and only if some output record emitted a line; with no emitted
\* line (no outputs, outputs with neither key, lists that render to
\* nothing) '::' and '' are removed, and nothing else ever is.
C1_Cleanup == [](C1_OpenCell) /\ [][C1_CleanupStep]_vars

\* a code cell without outputs after a markdown cell that ended with the
\* prose lines '::' and '': only the code cell's own '::' and '' are gone
C1_Witness ==
    /\ pc = "cells"
    /\ ci = 2
    /\ cells_of(w_of(nb))[1] = MarkdownCell(<<LiteralLine, Blank>>)
    /\ cells_of(w_of(nb))[2] = CodeCell(<<<<"x">>>>, <<>>)
    /\ Last(out, 8) = <<Blank, LiteralLine, Blank,
                        Blank, CodeBlockLine, Blank, Indent \o <<"x">>, Blank>>

----------------------------------------------------------------------------
(* C9: the first cell of every worksheet is skipped.                      *)

ExpectedProse(l) ==
    Concat([i \in 1..Len(l) |->
                IF l[i] = BACKTICK THEN <<BACKTICK, BACKTICK>> ELSE <<l[i]>>])

\* the lines of one right-trimmed markdown line that has '](' if it
\* starts with '!['
ExpectedMarkdownLine(l) ==
    IF startswith(l, <<"!", "[">>)
    THEN <<ImageDirective \o SubSeq(l, FirstMiddle(l) + 2, Len(l) - 1),
           AltOption \o SubSeq(l, 3, FirstMiddle(l) - 1)>>
    ELSE IF startswith(l, <<"#", "#", " ">>)
    THEN <<SubSeq(l, 4, Len(l)), [i \in 1..(Len(l) - 3) |-> "-"]>>
    ELSE <<ExpectedProse(l)>>

ExpectedCell(c) ==
    IF c.cell_type = "code" THEN ExpectedCodeCell(c)
    ELSE IF c.cell_type = "markdown"
    THEN <<Blank>> \o Concat([i \in 1..Len(c.source) |->
                                ExpectedMarkdownLine(rstrip(c.source[i]))])
    ELSE <<>>

\* the renderings of the cells at index 1 and above, in order
ExpectedWorksheet(w) ==
    Concat([i \in 1..(Len(w.cells) - 1) |-> ExpectedCell(w.cells[i + 1])])

ExpectedDocument(doc) ==
    Concat([i \in 1..Len(doc.worksheets) |->
                ExpectedWorksheet(doc.worksheets[i])])

\* C9: what restify returns is the concatenation, in worksheet order and
\* then cell order, of the renderings of the cells at index 1 and above
\* of the document it was given.  The index-0 cells do not occur in it, so
\* documents that differ only there yield the same output, and a
\* worksheet with fewer than 2 cells contributes no line.
C9_FirstCellSkipped ==
    pc = "done" /\ Len(results) = 1 =>
        results[1] = ExpectedDocument(loaded)

\* a returned run on two worksheets: the first holds one (code) cell only,
\* the second a code first cell that is skipped and two rendered cells
C9_Witness ==
    /\ pc = "done"
    /\ Len(loaded.worksheets) = 2
    /\ Len(loaded.worksheets[1].cells) = 1
    /\ loaded.worksheets[1].cells[1].cell_type = "code"
    /\ Len(loaded.worksheets[2].cells) = 3
    /\ loaded.worksheets[2].cells[1].cell_type = "code"
    /\ results = <<<<Blank, LiteralLine, Blank,
                     Blank, CodeBlockLine, Blank, Indent \o <<"x">>, Blank>>>>

----------------------------------------------------------------------------
(* C6 and C10: statements the code does not meet.                         *)

\* C6: restify is total on well-formed documents: on every document of
\* the guaranteed shape, markdown lines that start with '![' in any form
\* included, it returns without raising an error.
C6_NeverRaises == pc # "raised"

\* C10: a second run of restify on the same in-memory document returns
\* the same output sequence as the first run.
C10_SecondRunSame == Len(results) >= 2 => results[2] = results[1]

============================================================================
